---- MODULE Spec2Model ----
(***************************************************************************)
(* Model of backend/text_processor.py: TextChunker (sentence, paragraph   *)
(* and fixed-width chunking) and TextSearcher (scoring, ranking).          *)
(*                                                                         *)
(* A Python str is a sequence of one-character strings.  The characters    *)
(* are "a" (an English stop word when it stands alone), "x", "X", ".",    *)
(* the space and the newline.                                              *)
(***************************************************************************)
EXTENDS Integers, Sequences, FiniteSets, TLC

SP == " "
NL == "\n"

\* ------------------------------------------------------------------ bounds
\* A text handed to the chunker has at most MaxUnits words.
MaxUnits == 3
\* chunk_size ranges over 1..MaxChunkSize, overlap over 0..MaxOverlap.
MaxChunkSize == 5
MaxOverlap == 3
\* A document handed to the searcher has at most MaxSentences sentences.
MaxSentences == 3
\* max_results ranges over -1..MaxResults.
MaxResults == 3
\* A text whose score is compared has at most MaxWords words.
MaxWords == 2

\* ------------------------------------------------------- Python str methods
Min(a, b) == IF a <= b THEN a ELSE b
Max(a, b) == IF a >= b THEN a ELSE b

\* str.isspace() of one character
IsSpace(c) == c \in {SP, NL}

\* s[i:j] for 0 <= i, j (0-based, end exclusive, clamped as Python does)
Slice(s, i, j) == SubSeq(s, Min(i, Len(s)) + 1, Min(j, Len(s)))

RECURSIVE LStrip(_)
LStrip(s) ==
  IF s # <<>> /\ IsSpace(Head(s)) THEN LStrip(Tail(s)) ELSE s

RECURSIVE RStrip(_)
RStrip(s) ==
  IF s # <<>> /\ IsSpace(s[Len(s)]) THEN RStrip(SubSeq(s, 1, Len(s) - 1)) ELSE s

\* str.strip()
Strip(s) == LStrip(RStrip(s))

\* str.lower() of one character, and of a string
LowerChar(c) == IF c = "X" THEN "x" ELSE IF c = "A" THEN "a" ELSE c
Lower(s) == [i \in 1..Len(s) |-> LowerChar(s[i])]

\* sub occurs in s at 0-based offset p
OccursAt(s, sub, p) ==
  /\ p >= 0
  /\ p + Len(sub) <= Len(s)
  /\ \A k \in 1..Len(sub) : s[p + k] = sub[k]

\* s.find(sub, start): the lowest offset >= start where sub occurs, else -1
Find(s, sub, start) ==
  LET hits == { p \in start..(Len(s) - Len(sub)) : OccursAt(s, sub, p) }
  IN  IF hits = {} THEN -1 ELSE CHOOSE p \in hits : \A q \in hits : p <= q

\* sub in s
Contains(sub, s) == Find(s, sub, 0) # -1

\* s.count(sub): the number of non-overlapping occurrences, scanning left to
\* right; the empty string occurs len(s) + 1 times
RECURSIVE CountFrom(_, _, _)
CountFrom(s, sub, start) ==
  LET p == Find(s, sub, start)
  IN  IF p = -1 THEN 0 ELSE 1 + CountFrom(s, sub, p + Len(sub))

Count(s, sub) == IF sub = <<>> THEN Len(s) + 1 ELSE CountFrom(s, sub, 0)

\* s.split(sep) for a non-empty sep
RECURSIVE Split(_, _)
Split(s, sep) ==
  LET p == Find(s, sep, 0)
  IN  IF p = -1 THEN <<s>>
      ELSE <<Slice(s, 0, p)>> \o Split(Slice(s, p + Len(sep), Len(s)), sep)

\* sep.join(parts)
RECURSIVE Join(_, _)
Join(parts, sep) ==
  IF parts = <<>> THEN <<>>
  ELSE IF Len(parts) = 1 THEN parts[1]
  ELSE parts[1] \o sep \o Join(Tail(parts), sep)

\* --------------------------------------------------------- NLTK tokenizers
\* sent_tokenize (Punkt): a sentence ends at a "." that is followed by
\* whitespace and a further token; the whitespace between sentences is
\* dropped, the last sentence loses its trailing whitespace, and a text with
\* no token has no sentence.  s is scanned from 1-based index i, the current
\* sentence starting at 1-based index from.
RECURSIVE SentFrom(_, _, _)
SentFrom(s, from, i) ==
  IF i >= Len(s) THEN <<SubSeq(s, from, Len(s))>>
  ELSE IF s[i] = "." /\ IsSpace(s[i + 1])
       THEN LET rest == LStrip(SubSeq(s, i + 1, Len(s)))
            IN  <<SubSeq(s, from, i)>> \o SentFrom(rest, 1, 1)
       ELSE SentFrom(s, from, i + 1)

SentTokenize(s) ==
  LET t == RStrip(s) IN IF t = <<>> THEN <<>> ELSE SentFrom(t, 1, 1)

\* The tokens of one whitespace-free run: a final "." is a token of its own.
RunTokens(run) ==
  IF Len(run) > 1 /\ run[Len(run)] = "."
  THEN <<SubSeq(run, 1, Len(run) - 1), <<".">>>>
  ELSE <<run>>

\* word_tokenize: the text is cut at whitespace and each run gives its tokens.
RECURSIVE WordsFrom(_, _)
WordsFrom(s, run) ==
  IF s = <<>> THEN (IF run = <<>> THEN <<>> ELSE RunTokens(run))
  ELSE IF IsSpace(Head(s))
       THEN (IF run = <<>> THEN <<>> ELSE RunTokens(run)) \o WordsFrom(Tail(s), <<>>)
       ELSE WordsFrom(Tail(s), Append(run, Head(s)))

WordTokenize(s) == WordsFrom(s, <<>>)

\* stopwords.words('english'), restricted to the words over the alphabet
StopWords == { <<"a">> }

\* ------------------------------------------------------------ TextChunker
VARIABLES
  text,         \* the text handed to the chunker
  chunk_size,   \* TextChunker.chunk_size
  overlap,      \* TextChunker.overlap
  called,       \* the method called last ("none" before any call)
  sent_raises,  \* sent_tokenize raised during the call
  word_raises,  \* word_tokenize raised during the call
  fell_back,    \* the except branch ran (_fallback_chunk produced the result)
  raised,       \* the exception that left the call ("none" when it returned)
  chunks,       \* the list the call returned (<<>> when it raised)
  carried,      \* per returned chunk: how many leading units the overlap seeded
  query,        \* search_chunks' query
  max_results,  \* search_chunks' max_results
  results,      \* the list search_chunks returned
  relevance,    \* the value _calculate_relevance_score returned last
  before,       \* the text scored before the last edit, and its score
  max_len,      \* _generate_snippet's max_length
  snippet       \* the string _generate_snippet returned last

vars == <<text, chunk_size, overlap, called, sent_raises, word_raises,
          fell_back, raised, chunks, carried, query, max_results, results,
          relevance, before, max_len, snippet>>

\* _get_overlap_text: whole sentences from the end while they fit in overlap
RECURSIVE OverlapFrom(_, _, _)
OverlapFrom(sentences, overlap_text, ov) ==
  IF sentences = <<>> THEN overlap_text
  ELSE LET sentence == sentences[Len(sentences)]
       IN  IF Len(overlap_text \o sentence) <= ov
           THEN OverlapFrom(SubSeq(sentences, 1, Len(sentences) - 1),
                            IF overlap_text # <<>>
                            THEN sentence \o <<SP>> \o overlap_text
                            ELSE sentence,
                            ov)
           ELSE overlap_text

GetOverlapText(sentences, ov) == Strip(OverlapFrom(sentences, <<>>, ov))

\* [s for s in current_chunk_sentences if s in overlap_text]
RECURSIVE SentencesIn(_, _)
SentencesIn(sentences, overlap_text) ==
  IF sentences = <<>> THEN <<>>
  ELSE (IF Contains(Head(sentences), overlap_text) THEN <<Head(sentences)>> ELSE <<>>)
       \o SentencesIn(Tail(sentences), overlap_text)

\* Faulty variant of LoopStart: chunk_id starts at 1.
LoopStartFromOne ==
  [chunks |-> <<>>, carried |-> <<>>, current_chunk |-> <<>>,
   current_units |-> <<>>, seeded |-> 0, chunk_id |-> 1]

\* The loop state of chunk_by_sentences and chunk_by_paragraphs before the
\* first unit.  seeded counts the units the overlap put in current_units;
\* carried collects it per emitted chunk.
LoopStart ==
  [chunks |-> <<>>, carried |-> <<>>, current_chunk |-> <<>>,
   current_units |-> <<>>, seeded |-> 0, chunk_id |-> 0]

\* The dict appended when chunk_by_sentences closes a chunk inside the loop
SentenceChunk(st) ==
  LET n == Len(st.current_units)
  IN  [id |-> st.chunk_id,
       text |-> Strip(st.current_chunk),
       sentences |-> st.current_units,
       start_sentence |-> IF st.chunks # <<>> THEN st.chunk_id * n ELSE 0,
       end_sentence |-> st.chunk_id * n + n - 1,
       word_count |-> Len(WordTokenize(st.current_chunk))]

\* The dict appended after the loop
LastSentenceChunk(st) ==
  LET n == Len(st.current_units)
  IN  [id |-> st.chunk_id,
       text |-> Strip(st.current_chunk),
       sentences |-> st.current_units,
       start_sentence |-> IF st.chunks # <<>> THEN Len(st.chunks) * n ELSE 0,
       end_sentence |-> Len(st.chunks) * n + n - 1,
       word_count |-> Len(WordTokenize(st.current_chunk))]

\* The buffer a new chunk starts with in sentence mode
SentenceSeed(st, ov) ==
  IF ov > 0 /\ st.current_units # <<>>
  THEN LET overlap_text == GetOverlapText(st.current_units, ov)
       IN  [current_chunk |-> overlap_text,
            current_units |-> SentencesIn(st.current_units, overlap_text)]
  ELSE [current_chunk |-> <<>>, current_units |-> <<>>]

\* One iteration of the for loop of chunk_by_sentences
SentenceStep(st, sentence, cs, ov) ==
  LET closes == Len(st.current_chunk \o sentence) > cs /\ st.current_chunk # <<>>
      seed   == SentenceSeed(st, ov)
      s1 == IF closes
            THEN [chunks |-> Append(st.chunks, SentenceChunk(st)),
                  carried |-> Append(st.carried, st.seeded),
                  current_chunk |-> seed.current_chunk,
                  current_units |-> seed.current_units,
                  seeded |-> Len(seed.current_units),
                  chunk_id |-> st.chunk_id + 1]
            ELSE st
  IN  [s1 EXCEPT
         !.current_chunk = IF s1.current_chunk # <<>>
                           THEN s1.current_chunk \o <<SP>> \o sentence
                           ELSE sentence,
         !.current_units = Append(s1.current_units, sentence)]

RECURSIVE SentenceLoop(_, _, _, _)
SentenceLoop(st, sentences, cs, ov) ==
  IF sentences = <<>> THEN st
  ELSE SentenceLoop(SentenceStep(st, Head(sentences), cs, ov), Tail(sentences), cs, ov)

\* Faulty variant of SentenceChunks: the buffer left after the loop is not emitted.
SentenceChunksNoFlush(t, cs, ov) ==
  LET st == SentenceLoop(LoopStart, SentTokenize(t), cs, ov)
  IN  [chunks |-> st.chunks, carried |-> st.carried]

\* The try body of chunk_by_sentences when no tokenizer raises:
\* [chunks, carried]
SentenceChunks(t, cs, ov) ==
  LET st == SentenceLoop(LoopStart, SentTokenize(t), cs, ov)
  IN  IF Strip(st.current_chunk) # <<>>
      THEN [chunks |-> Append(st.chunks, LastSentenceChunk(st)),
            carried |-> Append(st.carried, st.seeded)]
      ELSE [chunks |-> st.chunks, carried |-> st.carried]

\* The dict chunk_by_paragraphs appends, inside the loop and after it
ParagraphChunk(st) ==
  [id |-> st.chunk_id,
   text |-> Strip(st.current_chunk),
   paragraphs |-> st.current_units,
   word_count |-> Len(WordTokenize(st.current_chunk))]

\* The buffer a new chunk starts with in paragraph mode
ParagraphSeed(st, ov) ==
  IF ov > 0 /\ st.current_units # <<>>
  THEN LET last == st.current_units[Len(st.current_units)]
           overlap_text == IF Len(last) <= ov THEN last ELSE Slice(last, 0, ov)
       IN  [current_chunk |-> overlap_text, current_units |-> <<overlap_text>>]
  ELSE [current_chunk |-> <<>>, current_units |-> <<>>]

\* One iteration of the for loop of chunk_by_paragraphs
ParagraphStep(st, paragraph, cs, ov) ==
  LET closes == Len(st.current_chunk \o paragraph) > cs /\ st.current_chunk # <<>>
      seed   == ParagraphSeed(st, ov)
      s1 == IF closes
            THEN [chunks |-> Append(st.chunks, ParagraphChunk(st)),
                  carried |-> Append(st.carried, st.seeded),
                  current_chunk |-> seed.current_chunk,
                  current_units |-> seed.current_units,
                  seeded |-> Len(seed.current_units),
                  chunk_id |-> st.chunk_id + 1]
            ELSE st
  IN  [s1 EXCEPT
         !.current_chunk = IF s1.current_chunk # <<>>
                           THEN s1.current_chunk \o <<NL, NL>> \o paragraph
                           ELSE paragraph,
         !.current_units = Append(s1.current_units, paragraph)]

RECURSIVE ParagraphLoop(_, _, _, _)
ParagraphLoop(st, paragraphs, cs, ov) ==
  IF paragraphs = <<>> THEN st
  ELSE ParagraphLoop(ParagraphStep(st, Head(paragraphs), cs, ov),
                     Tail(paragraphs), cs, ov)

\* [p.strip() for p in text.split('\n\n') if p.strip()]
RECURSIVE StripAll(_)
StripAll(parts) ==
  IF parts = <<>> THEN <<>>
  ELSE (IF Strip(Head(parts)) # <<>> THEN <<Strip(Head(parts))>> ELSE <<>>)
       \o StripAll(Tail(parts))

Paragraphs(t) == StripAll(Split(t, <<NL, NL>>))

\* The try body of chunk_by_paragraphs when word_tokenize does not raise
ParagraphChunks(t, cs, ov) ==
  LET st == ParagraphLoop(LoopStart, Paragraphs(t), cs, ov)
  IN  IF Strip(st.current_chunk) # <<>>
      THEN [chunks |-> Append(st.chunks, ParagraphChunk(st)),
            carried |-> Append(st.carried, st.seeded)]
      ELSE [chunks |-> st.chunks, carried |-> st.carried]

\* list(range(0, n, step)) for step # 0 from offset i on
RECURSIVE Range(_, _, _)
Range(i, n, step) ==
  IF step > 0 /\ i < n THEN <<i>> \o Range(i + step, n, step) ELSE <<>>

\* The loop of _fallback_chunk over the window starts, when word_tokenize
\* does not raise
RECURSIVE FallbackLoop(_, _, _, _)
FallbackLoop(acc, starts, t, cs) ==
  IF starts = <<>> THEN acc
  ELSE LET i == Head(starts)
           chunk_text == Slice(t, i, i + cs)
           acc1 == IF Strip(chunk_text) # <<>>
                   THEN Append(acc, [id |-> Len(acc),
                                     text |-> Strip(chunk_text),
                                     word_count |-> Len(WordTokenize(chunk_text)),
                                     start_pos |-> i,
                                     end_pos |-> Min(i + cs, Len(t))])
                   ELSE acc
       IN  FallbackLoop(acc1, Tail(starts), t, cs)

\* Faulty variant of FallbackChunks: the window advances by chunk_size.
FallbackChunksFullStep(t, cs, ov) == FallbackLoop(<<>>, Range(0, Len(t), cs), t, cs)

FallbackChunks(t, cs, ov) == FallbackLoop(<<>>, Range(0, Len(t), cs - ov), t, cs)

\* What a call leaves: the list returned, or the exception that left it
Returned(cl, cr, fb) ==
  [chunks |-> cl, carried |-> cr, fell_back |-> fb, raised |-> "none"]
Raised(exc, fb) ==
  [chunks |-> <<>>, carried |-> <<>>, fell_back |-> fb, raised |-> exc]

\* _fallback_chunk(text): range() rejects a zero step, and word_tokenize is
\* called for every window that is emitted
FallbackCall(t, cs, ov, wr, fb) ==
  IF cs - ov = 0 THEN Raised("ValueError", fb)
  ELSE LET fc == FallbackChunks(t, cs, ov)
       IN  IF wr /\ fc # <<>> THEN Raised("LookupError", fb)
           ELSE Returned(fc, [k \in 1..Len(fc) |-> 0], fb)

\* chunk_by_sentences(text): the try body, and the except branch
SentencesCall(t, cs, ov, sr, wr) ==
  IF sr THEN FallbackCall(t, cs, ov, wr, TRUE)
  ELSE LET r == SentenceChunks(t, cs, ov)
       IN  IF wr /\ r.chunks # <<>> THEN FallbackCall(t, cs, ov, wr, TRUE)
           ELSE Returned(r.chunks, r.carried, FALSE)

\* chunk_by_paragraphs(text): the try body, and the except branch
ParagraphsCall(t, cs, ov, wr) ==
  LET r == ParagraphChunks(t, cs, ov)
  IN  IF wr /\ r.chunks # <<>> THEN FallbackCall(t, cs, ov, wr, TRUE)
      ELSE Returned(r.chunks, r.carried, FALSE)

\* ------------------------------------------------------------- the inputs
\* the score 0.0 of a chunk with no word
NoScore == [num |-> 0, den |-> 1]

\* The texts handed to the chunker: words, each followed by a space or a
\* blank line before the next, with or without a space in front or behind;
\* and the texts of whitespace alone.
Words == { <<"a">>, <<"x", ".">> }
Separators == { <<SP>>, <<NL, NL>> }
BlankTexts == { <<>>, <<SP>>, <<NL, NL>>, <<SP, NL, NL, SP>> }

RECURSIVE Bodies(_)
Bodies(n) ==
  IF n = 1 THEN Words
  ELSE { b \o sep \o w : b \in Bodies(n - 1), sep \in Separators, w \in Words }

Texts ==
  BlankTexts \cup
  UNION { { b, <<SP>> \o b, b \o <<SP>> } : b \in UNION { Bodies(n) : n \in 1..MaxUnits } }

Init ==
  /\ text \in Texts
  /\ chunk_size \in 1..MaxChunkSize
  /\ overlap \in 0..MaxOverlap
  /\ called = "none"
  /\ sent_raises = FALSE
  /\ word_raises = FALSE
  /\ fell_back = FALSE
  /\ raised = "none"
  /\ chunks = <<>>
  /\ carried = <<>>
  /\ query = <<>>
  /\ max_results = 0
  /\ results = <<>>
  /\ relevance = NoScore
  /\ before = [text |-> <<>>, score |-> NoScore]
  /\ max_len = 0
  /\ snippet = <<>>

\* A call of a chunker method on a fresh TextChunker(chunk_size, overlap)
\* leaves r: the tokenizers' behaviour during the call is recorded with it
ChunkerCall(method, sr, wr, r) ==
  /\ called = "none"
  /\ called' = method
  /\ sent_raises' = sr
  /\ word_raises' = wr
  /\ fell_back' = r.fell_back
  /\ raised' = r.raised
  /\ chunks' = r.chunks
  /\ carried' = r.carried
  /\ UNCHANGED <<text, chunk_size, overlap, query, max_results, results,
                 relevance, before, max_len, snippet>>

ChunkBySentences ==
  \E sr \in BOOLEAN, wr \in BOOLEAN :
    LET r == SentencesCall(text, chunk_size, overlap, sr, wr)
    IN  ChunkerCall("chunk_by_sentences", sr, wr, r)

ChunkByParagraphs ==
  \E wr \in BOOLEAN :
    LET r == ParagraphsCall(text, chunk_size, overlap, wr)
    IN  ChunkerCall("chunk_by_paragraphs", FALSE, wr, r)

FallbackChunk ==
  \E wr \in BOOLEAN :
    LET r == FallbackCall(text, chunk_size, overlap, wr, FALSE)
    IN  ChunkerCall("_fallback_chunk", FALSE, wr, r)

Next == ChunkBySentences \/ ChunkByParagraphs \/ FallbackChunk

Spec == Init /\ [][Next]_vars

\* ------------------------------------------------- properties of the chunker
\* chunk_size > 0 and 0 <= overlap < chunk_size
ValidConfig == chunk_size > 0 /\ 0 <= overlap /\ overlap < chunk_size

\* a chunker method was called last
ChunkerCalled ==
  called \in {"chunk_by_sentences", "chunk_by_paragraphs", "_fallback_chunk"}

\* a chunker method returned a list
ChunkerReturned == ChunkerCalled /\ raised = "none"

\* the list returned was built by the sentence or the paragraph loop
UnitMode ==
  /\ called \in {"chunk_by_sentences", "chunk_by_paragraphs"}
  /\ raised = "none"
  /\ ~fell_back

\* the list returned was built by _fallback_chunk
FallbackMode ==
  /\ raised = "none"
  /\ (called = "_fallback_chunk" \/ fell_back)

\* C1: for a valid configuration the ids of the chunks returned by
\* chunk_by_sentences, chunk_by_paragraphs and _fallback_chunk are exactly
\* 0, 1, ..., N-1 in emission order.
C1_DenseIds ==
  (ValidConfig /\ ChunkerReturned) =>
    \A k \in 1..Len(chunks) : chunks[k].id = k - 1

\* Witness of C1: sentence mode with overlap returned three chunks.
C1_Witness ==
  /\ ValidConfig
  /\ called = "chunk_by_sentences"
  /\ ~fell_back
  /\ raised = "none"
  /\ overlap > 0
  /\ Len(chunks) >= 3

\* the unit list of a sentence or paragraph chunk
UnitList(chunk) ==
  IF "sentences" \in DOMAIN chunk THEN chunk.sentences ELSE chunk.paragraphs

\* the units of each chunk that the overlap did not carry over, concatenated
RECURSIVE FreshUnits(_, _)
FreshUnits(cl, cr) ==
  IF cl = <<>> THEN <<>>
  ELSE SubSeq(UnitList(Head(cl)), Head(cr) + 1, Len(UnitList(Head(cl))))
       \o FreshUnits(Tail(cl), Tail(cr))

\* the segmentation the loop of the called method ran over
SegmentedUnits ==
  IF called = "chunk_by_sentences" THEN SentTokenize(text) ELSE Paragraphs(text)

\* C2: in sentence and paragraph mode no unit is dropped: every unit is in
\* the unit list of some chunk, and the units not carried over as overlap,
\* taken chunk by chunk in id order, are the segmented units in order.
C2_NoUnitDropped ==
  UnitMode =>
    /\ FreshUnits(chunks, carried) = SegmentedUnits
    /\ \A i \in 1..Len(SegmentedUnits) :
         \E k \in 1..Len(chunks) :
           \E j \in 1..Len(UnitList(chunks[k])) :
             UnitList(chunks[k])[j] = SegmentedUnits[i]

\* Witness of C2: three units went into at least two chunks, the second of
\* which starts with a unit carried over from the first.
C2_Witness ==
  /\ ValidConfig
  /\ UnitMode
  /\ Len(SegmentedUnits) >= 3
  /\ Len(chunks) >= 2
  /\ carried[2] >= 1

\* C3: for a valid configuration the text of every chunk emitted by
\* chunk_by_sentences and chunk_by_paragraphs has at most chunk_size characters.
C3_TextWithinChunkSize ==
  (ValidConfig /\ UnitMode) =>
    \A k \in 1..Len(chunks) : Len(chunks[k].text) <= chunk_size

\* the window of _fallback_chunk that starts at offset i holds only whitespace
BlankWindow(i) == Strip(Slice(text, i, i + chunk_size)) = <<>>

\* C4 as stated: in fallback mode every chunk spans at most chunk_size
\* characters and each chunk starts exactly chunk_size - overlap after the
\* chunk emitted before it.
C4_AdvanceExactlyStep ==
  (ValidConfig /\ FallbackMode) =>
    \A k \in 1..Len(chunks) :
      /\ chunks[k].end_pos - chunks[k].start_pos <= chunk_size
      /\ k < Len(chunks) =>
           chunks[k + 1].start_pos = chunks[k].start_pos + (chunk_size - overlap)

\* C4 (amended): in fallback mode every chunk spans at most chunk_size
\* characters, and from one emitted chunk to the next start_pos advances by
\* chunk_size - overlap once, plus once more for every whitespace-only window
\* between them, which is not emitted.
C4_AdvanceByStepOverBlanks ==
  (ValidConfig /\ FallbackMode) =>
    \A k \in 1..Len(chunks) :
      /\ chunks[k].end_pos - chunks[k].start_pos <= chunk_size
      /\ k < Len(chunks) =>
           LET step == chunk_size - overlap
               d == chunks[k + 1].start_pos - chunks[k].start_pos
           IN  /\ d > 0
               /\ d % step = 0
               /\ \A j \in 1..((d \div step) - 1) :
                    BlankWindow(chunks[k].start_pos + j * step)

\* Witness of C4: a fallback run with overlap that skipped a whitespace-only
\* window between two emitted chunks.
C4_Witness ==
  /\ ValidConfig
  /\ FallbackMode
  /\ overlap > 0
  /\ \E k \in 1..(Len(chunks) - 1) :
       chunks[k + 1].start_pos - chunks[k].start_pos > chunk_size - overlap

\* C5: when a tokenizer call inside chunk_by_sentences or chunk_by_paragraphs
\* raises, the call still returns the chunks of the fixed-width fallback
\* (start_pos and end_pos, no unit list) and no exception leaves it.
C5_FailureNeverSurfaces ==
  (ValidConfig /\ fell_back) =>
    /\ raised = "none"
    /\ \A k \in 1..Len(chunks) :
         DOMAIN chunks[k] = {"id", "text", "word_count", "start_pos", "end_pos"}

\* _fallback_chunk ran, called directly or from an except branch
FallbackRan == called = "_fallback_chunk" \/ fell_back

\* C13: with overlap >= chunk_size the fixed-width fallback rejects the
\* configuration with an error, for overlap = chunk_size and for
\* overlap > chunk_size: on a text that holds a character other than
\* whitespace it does not return a list (one that omits the text, or any).
C13_OverlapHazardRejected ==
  (FallbackRan /\ overlap >= chunk_size /\ Strip(text) # <<>>)
    => raised # "none"

\* s[-n:] for 0 < n <= len(s)
LastChars(s, n) == SubSeq(s, Len(s) - n + 1, Len(s))

\* chunk_by_paragraphs returned the list built by its own loop
ParagraphMode == UnitMode /\ called = "chunk_by_paragraphs"

\* C14: in paragraph mode with overlap > 0 the buffer of every chunk after
\* the first is seeded with the tail of the last paragraph of the chunk closed
\* before it: that whole paragraph when it has at most overlap characters,
\* else its last overlap characters; so the chunk's text begins with a suffix
\* of the text of the chunk before it.
C14_SeedIsTailOfLastParagraph ==
  (ValidConfig /\ overlap > 0 /\ ParagraphMode) =>
    \A k \in 2..Len(chunks) :
      LET closed == chunks[k - 1]
          last == closed.paragraphs[Len(closed.paragraphs)]
          seed == chunks[k].paragraphs[1]
      IN  /\ seed = (IF Len(last) <= overlap THEN last ELSE LastChars(last, overlap))
          /\ Slice(chunks[k].text, 0, Len(seed)) = LastChars(closed.text, Len(seed))

\* chunk_by_sentences returned the list built by its own loop
SentenceMode == UnitMode /\ called = "chunk_by_sentences"

\* the last n entries of a list
LastUnits(units, n) == SubSeq(units, Len(units) - n + 1, Len(units))

\* C15: in sentence mode with overlap > 0 the sentences a chunk starts with,
\* carried over from the chunk closed before it, are trailing sentences of
\* that chunk, entry for entry, the seed they make (joined by single spaces)
\* has at most overlap characters, and the text of every chunk is its
\* sentence list joined by single spaces.  Stated for texts with no
\* whitespace at either end, whose sentences hold no whitespace of the margin.
C15_SeedIsTrailingSentences ==
  (ValidConfig /\ overlap > 0 /\ SentenceMode /\ text = Strip(text)) =>
    /\ \A k \in 2..Len(chunks) :
         LET closed == chunks[k - 1].sentences
             seed == SubSeq(chunks[k].sentences, 1, carried[k])
         IN  /\ carried[k] <= Len(closed)
             /\ seed = LastUnits(closed, carried[k])
             /\ Len(Join(seed, <<SP>>)) <= overlap
    /\ \A k \in 1..Len(chunks) :
         chunks[k].text = Join(chunks[k].sentences, <<SP>>)

\* ------------------------------------------------------------ TextSearcher
\* search_chunks passes 200 as _generate_snippet's max_length
SnippetLength == 200

\* A score is the float num/2 / den, kept as the pair: every exact match adds
\* 2.0 (4 halves), every partial match 0.5 (1 half), and den is len(text_words).
ScoreGT(a, b) == a.num * b.den > b.num * a.den
ScoreEQ(a, b) == a.num * b.den = b.num * a.den
ScoreGE(a, b) == a.num * b.den >= b.num * a.den

\* the inner loop of _calculate_relevance_score: 0.5 per word holding the term
RECURSIVE PartialHalves(_, _)
PartialHalves(text_words, term) ==
  IF text_words = <<>> THEN 0
  ELSE (IF Contains(term, Head(text_words)) /\ Len(term) > 2 THEN 1 ELSE 0)
       + PartialHalves(Tail(text_words), term)

\* Faulty variant of TermHalves: the exact-match bonus is divided by the occurrence
\* count instead of multiplied by it.
RECURSIVE TermHalvesDivided(_, _, _)
TermHalvesDivided(text_lower, text_words, query_terms) ==
  IF query_terms = <<>> THEN 0
  ELSE LET term == Head(query_terms)
       IN  (IF Contains(term, text_lower) THEN 4 \div Count(text_lower, term) ELSE 0)
           + PartialHalves(text_words, term)
           + TermHalvesDivided(text_lower, text_words, Tail(query_terms))

\* the outer loop of _calculate_relevance_score, in halves
RECURSIVE TermHalves(_, _, _)
TermHalves(text_lower, text_words, query_terms) ==
  IF query_terms = <<>> THEN 0
  ELSE LET term == Head(query_terms)
       IN  (IF Contains(term, text_lower) THEN 4 * Count(text_lower, term) ELSE 0)
           + PartialHalves(text_words, term)
           + TermHalves(text_lower, text_words, Tail(query_terms))

\* _calculate_relevance_score(text, query_terms)
CalculateRelevanceScore(t, query_terms) ==
  LET text_lower == Lower(t)
      text_words == WordTokenize(text_lower)
  IN  IF text_words # <<>>
      THEN [num |-> TermHalves(text_lower, text_words, query_terms),
            den |-> Len(text_words)]
      ELSE NoScore

\* _find_matches(text, query)
RECURSIVE MatchesFrom(_, _, _)
MatchesFrom(text_lower, q, start) ==
  LET pos == Find(text_lower, Lower(q), start)
  IN  IF pos = -1 THEN <<>>
      ELSE <<(<<pos, pos + Len(q)>>)>> \o MatchesFrom(text_lower, q, pos + 1)

\* Faulty variant of FindMatches: the scan resumes after the end of a match,
\* start = pos + len(query), so an occurrence inside a match is not reported.
RECURSIVE MatchesSkipping(_, _, _)
MatchesSkipping(text_lower, q, start) ==
  LET pos == Find(text_lower, Lower(q), start)
  IN  IF pos = -1 THEN <<>>
      ELSE <<(<<pos, pos + Len(q)>>)>>
           \o MatchesSkipping(text_lower, q, pos + Len(q))
FindMatchesSkipping(t, q) == MatchesSkipping(Lower(t), q, 0)

FindMatches(t, q) == MatchesFrom(Lower(t), q, 0)

\* Faulty variant of GenerateSnippet: the window ends max_length after the
\* match, end = min(len(text), pos + max_length), not max_length after start.
GenerateSnippetFromMatch(t, q, max_length) ==
  LET pos == Find(Lower(t), Lower(q), 0)
      dots == <<".", ".", ".">>
      start == Max(0, pos - (max_length \div 2))
      end == Min(Len(t), pos + max_length)
  IN  IF pos = -1
      THEN (IF Len(t) > max_length THEN Slice(t, 0, max_length) \o dots ELSE t)
      ELSE (IF start > 0 THEN dots ELSE <<>>)
           \o Slice(t, start, end)
           \o (IF end < Len(t) THEN dots ELSE <<>>)

\* _generate_snippet(text, query, max_length)
GenerateSnippet(t, q, max_length) ==
  LET pos == Find(Lower(t), Lower(q), 0)
      dots == <<".", ".", ".">>
      start == Max(0, pos - (max_length \div 2))
      end == Min(Len(t), start + max_length)
  IN  IF pos = -1
      THEN (IF Len(t) > max_length THEN Slice(t, 0, max_length) \o dots ELSE t)
      ELSE (IF start > 0 THEN dots ELSE <<>>)
           \o Slice(t, start, end)
           \o (IF end < Len(t) THEN dots ELSE <<>>)

\* Faulty variant of DropStopWords: no term is dropped.
RECURSIVE KeepStopWords(_)
KeepStopWords(terms) ==
  IF terms = <<>> THEN <<>>
  ELSE <<Lower(Head(terms))>> \o KeepStopWords(Tail(terms))

\* [term.lower() for term in word_tokenize(query) if term.lower() not in stop_words]
RECURSIVE DropStopWords(_)
DropStopWords(terms) ==
  IF terms = <<>> THEN <<>>
  ELSE (IF Lower(Head(terms)) \notin StopWords THEN <<Lower(Head(terms))>> ELSE <<>>)
       \o DropStopWords(Tail(terms))

QueryTerms(q) == DropStopWords(WordTokenize(q))

\* the for loop of search_chunks: one result per chunk with score > 0
RECURSIVE Scored(_, _, _)
Scored(cl, q, query_terms) ==
  IF cl = <<>> THEN <<>>
  ELSE LET chunk == Head(cl)
           score == CalculateRelevanceScore(chunk.text, query_terms)
       IN  (IF score.num > 0
            THEN << [chunk |-> chunk,
                     score |-> score,
                     matches |-> FindMatches(chunk.text, q),
                     snippet |-> GenerateSnippet(chunk.text, q, SnippetLength)] >>
            ELSE <<>>)
           \o Scored(Tail(cl), q, query_terms)

\* Faulty variant of InsertByScore: r goes before the results of equal score.
RECURSIVE InsertBeforeEqual(_, _)
InsertBeforeEqual(sorted, r) ==
  IF sorted = <<>> THEN <<r>>
  ELSE IF ScoreGT(Head(sorted).score, r.score)
       THEN <<Head(sorted)>> \o InsertBeforeEqual(Tail(sorted), r)
       ELSE <<r>> \o sorted

\* One insertion of list.sort(key=score, reverse=True): the sort is stable, so
\* r goes behind every result whose score is at least r's
RECURSIVE InsertByScore(_, _)
InsertByScore(sorted, r) ==
  IF sorted = <<>> THEN <<r>>
  ELSE IF ScoreGE(Head(sorted).score, r.score)
       THEN <<Head(sorted)>> \o InsertByScore(Tail(sorted), r)
       ELSE <<r>> \o sorted

\* results.sort(key=lambda x: x['score'], reverse=True)
RECURSIVE SortFrom(_, _)
SortFrom(sorted, rest) ==
  IF rest = <<>> THEN sorted
  ELSE SortFrom(InsertByScore(sorted, Head(rest)), Tail(rest))

SortByScore(rs) == SortFrom(<<>>, rs)

\* Faulty variant of Prefix: rs[-m:], the last m results.
PrefixFromEnd(rs, m) ==
  IF m > 0 THEN SubSeq(rs, Max(Len(rs) - m, 0) + 1, Len(rs)) ELSE rs

\* rs[:m]: a negative m counts from the end
Prefix(rs, m) ==
  IF m >= 0 THEN SubSeq(rs, 1, Min(m, Len(rs)))
  ELSE SubSeq(rs, 1, Max(Len(rs) + m, 0))

\* Faulty variant of SearchCall: no except clause, the tokenizer's exception leaves
\* search_chunks.
SearchCallNoExcept(cl, q, m, wr) ==
  IF wr THEN [results |-> <<>>, raised |-> "LookupError"]
  ELSE [results |-> Prefix(SortByScore(Scored(cl, q, QueryTerms(q))), m),
        raised |-> "none"]

\* search_chunks(query, max_results): whatever raises in the try body is
\* caught and [] returned; word_tokenize(query) is the first call made
SearchCall(cl, q, m, wr) ==
  IF wr THEN [results |-> <<>>, raised |-> "none"]
  ELSE [results |-> Prefix(SortByScore(Scored(cl, q, QueryTerms(q))), m),
        raised |-> "none"]

\* the documents handed to the searcher: sentences separated by one space
SearchSentences ==
  { <<"X", ".">>, <<"a", SP, "x", ".">>, <<"x", "x", "x", ".">> }
SearchTexts ==
  BlankTexts \cup
  UNION { { Join(ss, <<SP>>) : ss \in [1..n -> SearchSentences] } : n \in 1..MaxSentences }

Queries ==
  { <<>>, <<SP>>, <<"a">>, <<"A">>, <<"x">>, <<"X">>, <<"x", "X">>, <<"x", "x", "x">>,
    <<"a", SP, "x">>, <<"x", SP, "x", "x", "x">>, <<"x", ".">> }

InitSearch ==
  /\ text \in SearchTexts
  /\ chunk_size \in {1, MaxChunkSize}
  /\ overlap = 0
  /\ called = "none"
  /\ sent_raises = FALSE
  /\ word_raises = FALSE
  /\ fell_back = FALSE
  /\ raised = "none"
  /\ chunks = <<>>
  /\ carried = <<>>
  /\ query = <<>>
  /\ max_results = 0
  /\ results = <<>>
  /\ relevance = NoScore
  /\ before = [text |-> <<>>, score |-> NoScore]
  /\ max_len = 0
  /\ snippet = <<>>

\* The document is chunked with the tokenizers working
BuildChunks ==
  \/ LET r == SentencesCall(text, chunk_size, overlap, FALSE, FALSE)
     IN  ChunkerCall("chunk_by_sentences", FALSE, FALSE, r)
  \/ LET r == ParagraphsCall(text, chunk_size, overlap, FALSE)
     IN  ChunkerCall("chunk_by_paragraphs", FALSE, FALSE, r)
  \/ LET r == FallbackCall(text, chunk_size, overlap, FALSE, FALSE)
     IN  ChunkerCall("_fallback_chunk", FALSE, FALSE, r)

\* TextSearcher(chunks).search_chunks(query, max_results)
SearchChunks ==
  /\ called \in {"chunk_by_sentences", "chunk_by_paragraphs", "_fallback_chunk"}
  /\ raised = "none"
  /\ \E q \in Queries, m \in (-1)..MaxResults, wr \in BOOLEAN :
       LET r == SearchCall(chunks, q, m, wr)
       IN  /\ query' = q
           /\ max_results' = m
           /\ word_raises' = wr
           /\ results' = r.results
           /\ raised' = r.raised
  /\ called' = "search_chunks"
  /\ UNCHANGED <<text, chunk_size, overlap, sent_raises, fell_back, chunks, carried,
                 relevance, before, max_len, snippet>>

NextSearch == BuildChunks \/ SearchChunks

SpecSearch == InitSearch /\ [][NextSearch]_vars

\* ------------------------------------------------ properties of the searcher
Searched == called = "search_chunks"

\* what search_chunks returns for the same call when no tokenizer raises
Unfailing == SearchCall(chunks, query, max_results, FALSE).results

\* C6: search_chunks never throws through to the caller: when a step of it
\* raises it returns the empty list, whatever results it had, and no
\* exception leaves it.
C6_SearchNeverThrows ==
  (Searched /\ word_raises) => (raised = "none" /\ results = <<>>)

\* Witness of C6: the tokenizer raised in a search that returns results when
\* it does not.
C6_Witness ==
  /\ Searched
  /\ word_raises
  /\ results = <<>>
  /\ Unfailing # <<>>

\* C7: the results are in non-increasing order of score, and of two results
\* of equal score the one of the lower chunk id comes first.
C7_SortedTiesById ==
  Searched =>
    \A i \in 1..Len(results) : \A j \in (i + 1)..Len(results) :
      /\ ScoreGE(results[i].score, results[j].score)
      /\ ScoreEQ(results[i].score, results[j].score)
           => results[i].chunk.id < results[j].chunk.id

\* Witness of C7: three results, two of them of equal score and one of a
\* strictly lower score.
C7_Witness ==
  /\ Searched
  /\ Len(results) >= 3
  /\ "sentences" \in DOMAIN chunks[1]
  /\ \E i \in 1..Len(results) : \E j \in (i + 1)..Len(results) :
       ScoreEQ(results[i].score, results[j].score)
  /\ \E i \in 1..Len(results) : \E j \in (i + 1)..Len(results) :
       ScoreGT(results[i].score, results[j].score)

\* the queries that are empty, blank or one stop word
StopWordOnlyQueries == { <<>>, <<SP>>, <<"a">>, <<"A">> }

\* C8: empty input gives empty output: an empty or whitespace-only text is
\* chunked (sentence, paragraph or fallback mode) into the empty list without
\* an error, and a query with no term left after stop-word removal has no
\* result against any chunk list.
C8_EmptyInEmptyOut ==
  /\ (ChunkerCalled /\ Strip(text) = <<>>) => (raised = "none" /\ chunks = <<>>)
  /\ (Searched /\ query \in StopWordOnlyQueries) => results = <<>>

\* Witness of C8: the stop word "a" was searched, with the tokenizer working,
\* in chunks one of which holds the word "a".
C8_Witness ==
  /\ Searched
  /\ ~word_raises
  /\ max_results >= 1
  /\ query = <<"a">>
  /\ results = <<>>
  /\ \E k \in 1..Len(chunks) : Contains(<<"a">>, chunks[k].text)

\* the chunks whose score for the query is positive
Matching ==
  { k \in 1..Len(chunks) :
      CalculateRelevanceScore(chunks[k].text, QueryTerms(query)).num > 0 }

\* chunk k is the chunk of some result
Returned_(k) == \E i \in 1..Len(results) : results[i].chunk.id = chunks[k].id

\* the result list has at most max_results entries (none for a negative
\* max_results), holds only matching chunks with their scores, and leaves out
\* no chunk that scores higher than one it holds
TopMatches ==
  /\ Len(results) <= Max(max_results, 0)
  /\ ~word_raises => Len(results) = Min(Max(max_results, 0), Cardinality(Matching))
  /\ \A i \in 1..Len(results) :
       /\ results[i].score.num > 0
       /\ \E k \in Matching :
            /\ results[i].chunk = chunks[k]
            /\ results[i].score =
                 CalculateRelevanceScore(chunks[k].text, QueryTerms(query))
  /\ \A k \in 1..Len(chunks) :
       ~Returned_(k) =>
         \A i \in 1..Len(results) :
           ScoreGE(results[i].score,
                   CalculateRelevanceScore(chunks[k].text, QueryTerms(query)))

OccurrenceStarts(i) ==
  LET t == Lower(results[i].chunk.text)
  IN  { p \in 0..Len(t) : OccursAt(t, Lower(query), p) }

\* matches of result i lists offsets of occurrences of the query, each
\* (start, start + len(query)), in strictly increasing start order
OrderedOccurrences(i) ==
  LET ms == results[i].matches
  IN  /\ \A k \in 1..Len(ms) :
           /\ ms[k][1] \in OccurrenceStarts(i)
           /\ ms[k][2] - ms[k][1] = Len(query)
      /\ \A k \in 1..(Len(ms) - 1) : ms[k][1] < ms[k + 1][1]

\* no two ranges of matches of result i share a character
NonOverlapping(i) ==
  LET ms == results[i].matches
  IN  \A k \in 1..(Len(ms) - 1) : ms[k][2] <= ms[k + 1][1]

\* every occurrence of the query in the text of result i is in matches
EveryOccurrence(i) ==
  LET ms == results[i].matches
  IN  { ms[k][1] : k \in 1..Len(ms) } = OccurrenceStarts(i)

\* C11 as stated: matches of every search result lists the case-insensitive
\* occurrences of the literal query in the chunk text as (start, end) with
\* end - start = len(query), in strictly increasing start order, and the
\* ranges are pairwise non-overlapping.
C11_MatchesNonOverlapping ==
  Searched =>
    \A i \in 1..Len(results) : OrderedOccurrences(i) /\ NonOverlapping(i)

\* C11 (amended): matches of every search result lists every offset at which
\* the query occurs in the chunk text, whatever the case, as (start, end) with
\* end - start = len(query), in strictly increasing start order; the ranges
\* of occurrences that overlap in the text overlap in matches.
C11_MatchesEveryOccurrence ==
  Searched =>
    \A i \in 1..Len(results) : OrderedOccurrences(i) /\ EveryOccurrence(i)

\* Witness of C11: a result whose matches holds two ranges that overlap and
\* a match found under another letter case.
C11_Witness ==
  /\ Searched
  /\ \E i \in 1..Len(results) : ~NonOverlapping(i)
  /\ \E i \in 1..Len(results) :
       /\ results[i].matches # <<>>
       /\ Find(results[i].chunk.text, query, 0) = -1

\* ------------------------------------------------- one snippet of one text
\* the longest run of filler characters around the middle of a text, besides
\* the runs about as long as half a snippet and as a whole snippet
MaxPad == 3

\* n filler characters
Fill(n) == [i \in 1..n |-> "a"]

PadLengths ==
  (0..MaxPad)
    \cup { (SnippetLength \div 2) + d : d \in {-1, 0, 1} }
    \cup { SnippetLength + d : d \in {-1, 0, 1} }

\* the texts cut: filler, a middle that may hold the query, filler
SnippetMiddles == { <<>>, <<"X">>, <<"x", "a", "x">> }
SnippetTexts ==
  { Fill(i) \o m \o Fill(j) : i \in PadLengths, j \in PadLengths, m \in SnippetMiddles }
SnippetQueries == { <<>>, <<"x">>, <<"a", "a">> }
\* the values of max_length: search_chunks' 200 and the small ones
SnippetLengths == (0..MaxPad) \cup {SnippetLength}

InitSnippet ==
  /\ text \in SnippetTexts
  /\ query \in SnippetQueries
  /\ max_len \in SnippetLengths
  /\ chunk_size = 1
  /\ overlap = 0
  /\ called = "none"
  /\ sent_raises = FALSE
  /\ word_raises = FALSE
  /\ fell_back = FALSE
  /\ raised = "none"
  /\ chunks = <<>>
  /\ carried = <<>>
  /\ max_results = 0
  /\ results = <<>>
  /\ relevance = NoScore
  /\ before = [text |-> <<>>, score |-> NoScore]
  /\ snippet = <<>>

\* _generate_snippet(text, query, max_length)
MakeSnippet ==
  /\ called = "none"
  /\ called' = "_generate_snippet"
  /\ snippet' = GenerateSnippet(text, query, max_len)
  /\ UNCHANGED <<text, chunk_size, overlap, sent_raises, word_raises, fell_back,
                 raised, chunks, carried, query, max_results, results, relevance,
                 before, max_len>>

NextSnippet == MakeSnippet

SpecSnippet == InitSnippet /\ [][NextSnippet]_vars

SnippetMade == called = "_generate_snippet"

\* C12: the snippet of a text for a query is at most max_length + 6
\* characters long (206 for the 200 search_chunks passes), whether or not the
\* query occurs in the text and wherever it occurs first.
C12_SnippetLengthBound ==
  SnippetMade => Len(snippet) <= max_len + 6

\* Witness of C12: a snippet of 200 characters cut around a match in the
\* middle of a longer text, with an ellipsis on both sides.
C12_Witness ==
  /\ SnippetMade
  /\ max_len = SnippetLength
  /\ Find(Lower(text), Lower(query), 0) > SnippetLength \div 2
  /\ Len(snippet) = SnippetLength + 6

\* ------------------------------------------- scoring one text before and after
\* the texts scored: words separated by one space
ScoreWords == { <<"x">>, <<"x", "x">>, <<"x", "x", "x">>, <<"a">> }
ScoreTexts ==
  UNION { { Join(ws, <<SP>>) : ws \in [1..n -> ScoreWords] } : n \in 1..MaxWords }
ScoreQueries ==
  { <<"x">>, <<"x", "x">>, <<"x", "x", "x">>, <<"x", SP, "x", "x", "x">> }

InitScore ==
  /\ text \in ScoreTexts
  /\ query \in ScoreQueries
  /\ chunk_size = 1
  /\ overlap = 0
  /\ called = "none"
  /\ sent_raises = FALSE
  /\ word_raises = FALSE
  /\ fell_back = FALSE
  /\ raised = "none"
  /\ chunks = <<>>
  /\ carried = <<>>
  /\ max_results = 0
  /\ results = <<>>
  /\ relevance = NoScore
  /\ before = [text |-> <<>>, score |-> NoScore]
  /\ max_len = 0
  /\ snippet = <<>>

\* _calculate_relevance_score(text, query_terms) for the terms of the query
ScoreText ==
  /\ called = "none"
  /\ called' = "_calculate_relevance_score"
  /\ relevance' = CalculateRelevanceScore(text, QueryTerms(query))
  /\ UNCHANGED <<text, chunk_size, overlap, sent_raises, word_raises, fell_back,
                 raised, chunks, carried, query, max_results, results, before,
                 max_len, snippet>>

\* the text becomes edited and is scored again
Rescore(edited) ==
  /\ called = "_calculate_relevance_score"
  /\ before.text = <<>>
  /\ text' = edited
  /\ before' = [text |-> text, score |-> relevance]
  /\ relevance' = CalculateRelevanceScore(edited, QueryTerms(query))
  /\ UNCHANGED <<chunk_size, overlap, called, sent_raises, word_raises, fell_back,
                 raised, chunks, carried, query, max_results, results,
                 max_len, snippet>>

\* one more occurrence of a query term, as a word of its own at the end
AddAsWord ==
  \E i \in 1..Len(QueryTerms(query)) :
    Rescore(text \o <<SP>> \o QueryTerms(query)[i])

\* one more occurrence of a query term, written into the text at offset p
\* (no whitespace is added)
AddInWord ==
  \E i \in 1..Len(QueryTerms(query)), p \in 0..Len(text) :
    Rescore(Slice(text, 0, p) \o QueryTerms(query)[i] \o Slice(text, p, Len(text)))

NextScore == ScoreText \/ AddAsWord \/ AddInWord

SpecScore == InitScore /\ [][NextScore]_vars

Rescored == called = "_calculate_relevance_score" /\ before.text # <<>>

WordsOf(t) == WordTokenize(Lower(t))

\* some query term occurs more often in the text than before the edit, and no
\* query term occurs less often
OccurrencesIncreased ==
  LET terms == QueryTerms(query)
  IN  /\ \E i \in 1..Len(terms) :
           Count(Lower(text), terms[i]) > Count(Lower(before.text), terms[i])
      /\ \A i \in 1..Len(terms) :
           Count(Lower(text), terms[i]) >= Count(Lower(before.text), terms[i])

\* the text has as many words as before the edit, and no query term is held
\* by fewer words
WordsKept ==
  LET terms == QueryTerms(query)
  IN  /\ Len(WordsOf(text)) = Len(WordsOf(before.text))
      /\ \A i \in 1..Len(terms) :
           PartialHalves(WordsOf(text), terms[i])
             >= PartialHalves(WordsOf(before.text), terms[i])

\* C10 as stated: more occurrences of a query term in a chunk's text, all
\* else equal, never give a lower score, also when the extra occurrence adds
\* a word to the chunk.
C10_MoreOccurrencesNeverLower ==
  (Rescored /\ OccurrencesIncreased) => ScoreGE(relevance, before.score)

\* C10 (amended): more occurrences of a query term never give a lower score
\* when the chunk's word count stays the same and no query term loses an
\* occurrence or a word that holds it.
C10_MoreOccurrencesSameWords ==
  (Rescored /\ OccurrencesIncreased /\ WordsKept)
    => ScoreGE(relevance, before.score)

\* Witness of C10: an occurrence written into a word of a text scored for a
\* query of two terms raised the score and kept the word count.
C10_Witness ==
  /\ Rescored
  /\ OccurrencesIncreased
  /\ WordsKept
  /\ Len(QueryTerms(query)) >= 2
  /\ ScoreGT(relevance, before.score)

====
